---- MODULE Spec2Model ----
(***************************************************************************)
(* Model of qiskit.providers.ibmq.jobmanager.JobManager: a one-shot        *)
(* coordinator that splits a list of experiments into sub-batches, submits *)
(* them on a single background worker, and answers queries over the        *)
(* resulting job handles once the submission phase has finished.           *)
(*                                                                         *)
(* Threads of control: the caller (run and the query methods) and the      *)
(* executor's single worker thread (submit_async, then _submit_callback).  *)
(* Optional[int] values are modelled as sets: {} is None, {n} is n.        *)
(***************************************************************************)
EXTENDS Integers, Sequences, FiniteSets, TLC

\* ---------------------------------------------------------------- bounds
MaxExps == 3       \* longest experiment list passed to run()
MaxLimit == 2      \* largest backend limit / caller cap
MaxSplitLen == 5   \* longest list given to _split_experiments on its own
MaxSplitLimit == 3 \* largest limit / cap given to _split_experiments on its own
MaxRuns == 2       \* submission phases the model lets the executor accept
MaxTimeout == 2    \* largest timeout passed to result()
MaxDelay == 2      \* longest time one job.result() call takes

\* ------------------------------------------------------- Python helpers
Min(a, b) == IF a <= b THEN a ELSE b

Val(opt) == CHOOSE v \in opt : TRUE

\* Python truthiness of an Optional[int]: None and 0 are falsy.
Truthy(opt) == opt # {} /\ opt # {0}

RECURSIVE Range(_, _, _)
\* range(start, stop, step) for step > 0, as a sequence.
Range(start, stop, step) ==
    IF start >= stop THEN <<>>
    ELSE <<start>> \o Range(start + step, stop, step)

\* experiments[x:y]; Python clamps the slice to the list.
Slice(s, x, y) == SubSeq(s, x + 1, Min(y, Len(s)))

RECURSIVE Concat(_)
Concat(ss) == IF ss = <<>> THEN <<>> ELSE Head(ss) \o Concat(Tail(ss))

RECURSIVE SumLen(_)
SumLen(ss) == IF ss = <<>> THEN 0 ELSE Len(Head(ss)) + SumLen(Tail(ss))

\* ------------------------------------------------- _split_experiments
\* The chunk size chosen on lines 312-319: {} when the list is not split.
ChunkSize(B, M) ==
    IF B # {}
    THEN IF M = {} THEN B ELSE {Min(Val(B), Val(M))}
    ELSE IF Truthy(M) THEN M ELSE {}

\* Line 321 with slices one element too long.
ChunksOverlap(experiments, chunk_size) ==
    IF chunk_size = 0 THEN [raised |-> TRUE, value |-> <<>>]
    ELSE IF chunk_size < 0 THEN [raised |-> FALSE, value |-> <<>>]
    ELSE LET xs == Range(0, Len(experiments), chunk_size)
         IN  [raised |-> FALSE,
              value  |-> [k \in 1..Len(xs) |->
                             Slice(experiments, xs[k], xs[k] + chunk_size + 1)]]

\* Line 321. range() raises ValueError for a step of 0 and is empty for a
\* negative step.
Chunks(experiments, chunk_size) ==
    IF chunk_size = 0 THEN [raised |-> TRUE, value |-> <<>>]
    ELSE IF chunk_size < 0 THEN [raised |-> FALSE, value |-> <<>>]
    ELSE LET xs == Range(0, Len(experiments), chunk_size)
         IN  [raised |-> FALSE,
              value  |-> [k \in 1..Len(xs) |->
                             Slice(experiments, xs[k], xs[k] + chunk_size)]]

SplitExperiments(experiments, B, M) ==
    LET c == ChunkSize(B, M)
    IN  IF c = {} THEN [raised |-> FALSE, value |-> <<experiments>>]
        ELSE Chunks(experiments, Val(c))

\* ------------------------------------------------------------ values
\* None, a submitted job handle (IBMQJob) and a submission error share
\* one record shape so that they can be compared.
None == [kind |-> "none", idx |-> 0, start |-> 0, end |-> 0]

\* An experiment of the caller's list.
Experiment(i) == [id |-> i, transpiled |-> FALSE]

Experiments(L) == [i \in 1..L |-> Experiment(i)]

\* transpile(circuits=experiments, backend=backend): one compiled
\* experiment per input experiment, in order.
Transpile(experiments) ==
    [i \in 1..Len(experiments) |-> [experiments[i] EXCEPT !.transpiled = TRUE]]

\* assemble(experiment, backend=backend, shots=shots): one Qobj per sub-batch.
Assemble(experiment) == [experiments |-> experiment]

\* What a finished call left with the caller: the value it returned or the
\* exception it raised. It is NoOutcome while the caller is inside a call.
Outcome(op, status, n, list) ==
    [op |-> op, status |-> status, n |-> n, list |-> list]

NoOutcome == Outcome("none", "none", 0, <<>>)

\* The locals of the call the caller is inside: ret is run()'s len(qobjs);
\* the others are result()'s original_timeout, timeout, i (from 1), results
\* and time.time() - start_time, with the timeout handed to the last
\* job.result() call and the time that had elapsed when it was made.
NoCall ==
    [op |-> "none", ret |-> 0, original_timeout |-> {}, timeout |-> {},
     i |-> 0, results |-> <<>>, elapsed |-> 0, passed |-> {}, before |-> 0]

OptTimeouts == {{}} \cup {{n} : n \in 0..MaxTimeout}

\* JobStatus
JobStatuses ==
    {"INITIALIZING", "QUEUED", "VALIDATING", "RUNNING", "CANCELLED", "DONE",
     "ERROR"}

NoWork == [qobjs |-> <<>>, results |-> <<>>]

OptLimits == {{}} \cup {{n} : n \in 1..MaxLimit}

OptCaps == {{}} \cup {{n} : n \in 0..MaxLimit}

QueryOps == {"jobs", "status", "report", "result", "error_message", "qobj"}

\* ------------------------------------------------------------- state
VARIABLES
    jobs,               \* self._jobs
    submit_exception,   \* self._submit_exception
    submit_done_event,  \* self._submit_done_event is set
    submit_called,      \* self._submit_called
    result_cache,       \* self._result: {} is None, {r} is the list r
    error_msg,          \* self._error_msg: {} is None
    queue,              \* work accepted by self._executor, not yet started
    work,               \* the unit of work the worker thread is running
    wpc,                \* where the worker thread is
    cb_i,               \* loop index of the completion callback
    cancel_calls,       \* handles whose cancel() has been called
    pc,                 \* where the caller is
    cur,                \* the call the caller is inside
    out,                \* the outcome of the caller's last finished call
    polled,             \* history: what job.status() gave, handle by
                        \* handle, in the status() call that gave out
    n_sched,            \* history: executor.submit calls made by run()
    n_run_ok,           \* history: run() calls that returned a count
    n_set,              \* history: calls of _submit_done_event.set()
    n_submits,          \* history: remote submissions attempted
    n_exps,             \* history: len(experiments) of the run() that submitted
    sp_in,              \* arguments of a stand-alone _split_experiments call
    sp_out,             \* its result
    pc2,                \* where a second thread calling run() is
    ret2,               \* len(qobjs) in the second thread's run()
    out2,               \* the outcome of the second thread's last run()
    timed_out           \* history: a result() call has raised
                        \* IBMQJobManagerTimeoutError

coord == <<jobs, submit_exception, submit_done_event, submit_called,
           result_cache, error_msg>>
worker == <<queue, work, wpc, cb_i, cancel_calls>>
caller == <<pc, cur, out, polled>>
hist == <<n_sched, n_run_ok, n_set, n_submits, n_exps>>
split == <<sp_in, sp_out>>
caller2 == <<pc2, ret2, out2>>
vars == <<coord, worker, caller, hist, split, caller2, timed_out>>

NoSplitIn == [experiments |-> <<>>, B |-> {}, M |-> {}]

NoSplitOut == [done |-> FALSE, raised |-> FALSE, chunk |-> {}, value |-> <<>>]

\* A coordinator whose flag starts out set.
InitSubmitCalledSet == TRUE

\* JobManager.__init__, line 51.
InitSubmitCalled == FALSE

InitCoordinator ==
    /\ jobs = <<>>
    /\ submit_exception = None
    /\ submit_done_event = FALSE
    /\ submit_called = InitSubmitCalled
    /\ result_cache = {}
    /\ error_msg = {}
    /\ queue = <<>>
    /\ work = NoWork
    /\ wpc = "idle"
    /\ cb_i = 0
    /\ cancel_calls = {}
    /\ pc = "idle"
    /\ cur = NoCall
    /\ out = NoOutcome
    /\ polled = <<>>
    /\ n_sched = 0
    /\ n_run_ok = 0
    /\ n_set = 0
    /\ n_submits = 0
    /\ n_exps = 0
    /\ pc2 = "idle"
    /\ ret2 = 0
    /\ out2 = NoOutcome
    /\ timed_out = FALSE

Init ==
    /\ InitCoordinator
    /\ sp_in = NoSplitIn
    /\ sp_out = NoSplitOut

\* ---------------------------------------------------------------- run
\* run() without the one-shot check.
AlreadySubmittedNever == FALSE

\* Line 100: the one-shot check.
AlreadySubmitted == submit_called

\* Line 115.
FlagAfterRun == TRUE

RunRaise(e) ==
    /\ out' = Outcome("run", e, 0, <<>>)
    /\ polled' = <<>>
    /\ UNCHANGED <<pc, cur, coord, worker, hist, split, caller2, timed_out>>

\* run(), lines 96-98: some experiment is a pulse schedule and the backend
\* does not support pulse. This check comes before the one-shot check.
RunUnsupported ==
    /\ pc = "idle"
    /\ RunRaise("InvalidState")

\* run(), lines 100-101.
RunAlready ==
    /\ pc = "idle"
    /\ AlreadySubmitted
    /\ RunRaise("InvalidState")

\* run(), lines 103-114, for experiments the backend supports: transpile
\* ("skip" with skip_transpile, else it succeeds, "ok", or raises, "fail"),
\* split, assemble and the hand-over to the executor. B is the backend's
\* max_experiments ({} when its configuration has no such attribute) and M
\* is max_experiments_per_job.
RunSubmit(L, transpile, B, M) ==
    /\ pc = "idle"
    /\ ~AlreadySubmitted
    /\ LET given == Experiments(L)
           experiments == IF transpile = "skip" THEN given ELSE Transpile(given)
           sp == SplitExperiments(experiments, B, M)
           qobjs == [k \in 1..Len(sp.value) |-> Assemble(sp.value[k])]
       IN  IF transpile = "fail" THEN RunRaise("TranspilerError")
           ELSE IF sp.raised THEN RunRaise("ValueError")
           ELSE /\ n_sched < MaxRuns
                /\ queue' = Append(queue, qobjs)
                /\ n_sched' = n_sched + 1
                /\ pc' = "run"
                /\ cur' = [NoCall EXCEPT !.op = "run", !.ret = Len(qobjs)]
                /\ out' = NoOutcome
                /\ polled' = <<>>
                /\ n_exps' = L
                /\ UNCHANGED <<coord, work, wpc, cb_i, cancel_calls, n_run_ok,
                               n_set, n_submits, split, caller2, timed_out>>

\* run(), lines 115-117: flip the flag and return len(qobjs).
RunReturn ==
    /\ pc = "run"
    /\ submit_called' = FlagAfterRun
    /\ out' = Outcome("run", "ok", cur.ret, <<>>)
    /\ polled' = <<>>
    /\ n_run_ok' = n_run_ok + 1
    /\ pc' = "idle"
    /\ cur' = NoCall
    /\ UNCHANGED <<jobs, submit_exception, submit_done_event, result_cache,
                   error_msg, worker, n_sched, n_set, n_submits, n_exps,
                   split, caller2, timed_out>>

\* ------------------------------------------------ the worker thread
\* The executor's single worker takes the next unit of work. It runs the
\* done-callback of a unit before it takes another one.
WorkerTake ==
    /\ wpc \in {"idle", "done", "raised"}
    /\ queue # <<>>
    /\ work' = [qobjs |-> Head(queue), results |-> <<>>]
    /\ queue' = Tail(queue)
    /\ wpc' = "submit"
    /\ UNCHANGED <<coord, cb_i, cancel_calls, caller, hist, split, caller2,
                   timed_out>>

\* Index range of the experiments of sub-batch k.
StartIndex(qobjs, k) == SumLen([j \in 1..(k - 1) |-> qobjs[j].experiments])

JobHandle(qobjs, k) ==
    [kind |-> "job", idx |-> k, start |-> StartIndex(qobjs, k),
     end |-> StartIndex(qobjs, k) + Len(qobjs[k].experiments)]

SubmitError(k) == [kind |-> "err", idx |-> k, start |-> 0, end |-> 0]

\* submit_async: one remote submission per Qobj, in order; each yields a
\* job handle or an error value, and a failure does not stop the loop.
WorkerSubmit(ok) ==
    /\ wpc = "submit"
    /\ Len(work.results) < Len(work.qobjs)
    /\ LET k == Len(work.results) + 1
       IN  work' = [work EXCEPT !.results =
                       Append(@, IF ok THEN JobHandle(work.qobjs, k)
                                       ELSE SubmitError(k))]
    /\ n_submits' = n_submits + 1
    /\ UNCHANGED <<coord, queue, wpc, cb_i, cancel_calls, caller,
                   n_sched, n_run_ok, n_set, n_exps, split, caller2,
                   timed_out>>

\* submit_async returns its list of outcomes (its arguments are dropped);
\* the future completes and calls _submit_callback.
WorkerFinish ==
    /\ wpc = "submit"
    /\ Len(work.results) = Len(work.qobjs)
    /\ work' = [work EXCEPT !.qobjs = <<>>]
    /\ wpc' = "cb_loop"
    /\ cb_i' = 1
    /\ UNCHANGED <<coord, queue, cancel_calls, caller, hist, split, caller2,
                   timed_out>>

\* ------------------------------------------------- _submit_callback
\* The loop of lines 127-131 putting each new handle first.
CbLoopPrepend ==
    /\ wpc = "cb_loop"
    /\ cb_i <= Len(work.results)
    /\ LET result == work.results[cb_i]
       IN  IF result.kind = "job"
           THEN /\ jobs' = <<result>> \o jobs
                /\ UNCHANGED submit_exception
           ELSE /\ submit_exception' = result
                /\ UNCHANGED jobs
    /\ cb_i' = cb_i + 1
    /\ UNCHANGED <<submit_done_event, submit_called, result_cache, error_msg,
                   queue, work, wpc, cancel_calls, caller, hist, split,
                   caller2, timed_out>>

\* Lines 127-131: one iteration of the loop over future.result().
CbLoop ==
    /\ wpc = "cb_loop"
    /\ cb_i <= Len(work.results)
    /\ LET result == work.results[cb_i]
       IN  IF result.kind = "job"
           THEN /\ jobs' = Append(jobs, result)
                /\ UNCHANGED submit_exception
           ELSE /\ submit_exception' = result
                /\ UNCHANGED jobs
    /\ cb_i' = cb_i + 1
    /\ UNCHANGED <<submit_done_event, submit_called, result_cache, error_msg,
                   queue, work, wpc, cancel_calls, caller, hist, split,
                   caller2, timed_out>>

\* The callback without the clean-up of lines 134-137.
CbCheckNoCleanup ==
    /\ wpc = "cb_loop"
    /\ cb_i > Len(work.results)
    /\ wpc' = "cb_set" /\ cb_i' = 0
    /\ UNCHANGED <<coord, queue, work, cancel_calls, caller, hist, split,
                   caller2, timed_out>>

\* Line 134: the loop is over; clean up if a submission failed.
CbCheck ==
    /\ wpc = "cb_loop"
    /\ cb_i > Len(work.results)
    /\ IF submit_exception # None
       THEN wpc' = "cb_cancel" /\ cb_i' = 1
       ELSE wpc' = "cb_set" /\ cb_i' = 0
    /\ UNCHANGED <<coord, queue, work, cancel_calls, caller, hist, split,
                   caller2, timed_out>>

\* Lines 135-136: job.cancel() on the next handle. cancel() may raise; the
\* callback has no handler, so the exception ends it (the executor logs an
\* exception raised by a done-callback and drops it).
CbCancel(ok) ==
    /\ wpc = "cb_cancel"
    /\ cb_i <= Len(jobs)
    /\ cancel_calls' = cancel_calls \cup {jobs[cb_i]}
    /\ IF ok THEN cb_i' = cb_i + 1 /\ wpc' = wpc
             ELSE cb_i' = 0 /\ wpc' = "raised"
    /\ UNCHANGED <<coord, queue, work, caller, hist, split, caller2,
                   timed_out>>

\* Line 137.
CbClear ==
    /\ wpc = "cb_cancel"
    /\ cb_i > Len(jobs)
    /\ jobs' = <<>>
    /\ wpc' = "cb_set"
    /\ cb_i' = 0
    /\ UNCHANGED <<submit_exception, submit_done_event, submit_called,
                   result_cache, error_msg, queue, work, cancel_calls, caller,
                   hist, split, caller2, timed_out>>

\* Line 139.
CbSet ==
    /\ wpc = "cb_set"
    /\ submit_done_event' = TRUE
    /\ n_set' = n_set + 1
    /\ wpc' = "done"
    /\ UNCHANGED <<jobs, submit_exception, submit_called, result_cache,
                   error_msg, queue, work, cb_i, cancel_calls, caller,
                   n_sched, n_run_ok, n_submits, n_exps, split, caller2,
                   timed_out>>

\* ------------------------------------------------------- the queries
\* requires_submit, first half: a query before run() raises.
QueryCall(op, timeout) ==
    /\ pc = "idle"
    /\ polled' = <<>>
    /\ IF ~submit_called
       THEN /\ out' = Outcome(op, "InvalidState", 0, <<>>)
            /\ UNCHANGED <<pc, cur>>
       ELSE /\ pc' = "wait"
            /\ cur' = [NoCall EXCEPT !.op = op, !.original_timeout = timeout,
                                     !.timeout = timeout]
            /\ out' = NoOutcome
    /\ UNCHANGED <<coord, worker, hist, split, caller2, timed_out>>

\* requires_submit, second half: _submit_done_event.wait() has returned.
GateOpen == submit_done_event

Return(o) ==
    /\ out' = o
    /\ pc' = "idle"
    /\ cur' = NoCall
    /\ polled' = <<>>

\* jobs(), line 148.
JobsBody ==
    /\ pc = "wait" /\ cur.op = "jobs"
    /\ GateOpen
    /\ Return(Outcome("jobs", "ok", Len(jobs), jobs))
    /\ UNCHANGED <<coord, worker, hist, split, caller2, timed_out>>

\* result(), lines 230-235: return the cache if it is truthy (a list that
\* is not empty), else start the loop.
ResultBegin ==
    /\ pc = "wait" /\ cur.op = "result"
    /\ GateOpen
    /\ IF result_cache # {} /\ Val(result_cache) # <<>>
       THEN Return(Outcome("result", "ok", Len(Val(result_cache)),
                           Val(result_cache)))
       ELSE /\ pc' = "result_loop"
            /\ cur' = [cur EXCEPT !.i = 1]
            /\ UNCHANGED <<out, polled>>
    /\ UNCHANGED <<coord, worker, hist, split, caller2, timed_out>>

\* The timeout handed to job.result() on line 241.
FetchTimeout == cur.timeout

\* Line 248: the budget is checked only when timeout is truthy.
BudgetChecked == Truthy(cur.timeout)

\* Line 250.
BudgetSpent(timeout) == timeout <= 0

\* result() that keeps the partial list as its cache when it times out.
ResultFetchCachesPartial(dt, ok) ==
    /\ pc = "result_loop"
    /\ cur.i <= Len(jobs)
    /\ LET job == jobs[cur.i]
           results == Append(cur.results, IF ok THEN job.idx ELSE 0)
           elapsed == cur.elapsed + dt
           timeout == IF BudgetChecked
                      THEN {Val(cur.original_timeout) - elapsed}
                      ELSE cur.timeout
       IN  IF BudgetChecked /\ BudgetSpent(Val(timeout))
           THEN /\ Return(Outcome("result", "Timeout", cur.i,
                                  <<job.start, job.end>>))
                /\ result_cache' = {results}
                /\ timed_out' = TRUE
           ELSE /\ cur' = [cur EXCEPT !.i = @ + 1, !.results = results,
                                      !.elapsed = elapsed, !.timeout = timeout,
                                      !.passed = FetchTimeout,
                                      !.before = cur.elapsed]
                /\ UNCHANGED <<pc, out, polled, result_cache, timed_out>>
    /\ UNCHANGED <<jobs, submit_exception, submit_done_event, submit_called,
                   error_msg, worker, hist, split, caller2>>

\* result(), lines 237-254: one iteration. job.result() takes dt and either
\* returns (ok) or raises JobError, which leaves None in the list. The
\* raise on line 250 leaves self._result and self._jobs as they are.
ResultFetch(dt, ok) ==
    /\ pc = "result_loop"
    /\ cur.i <= Len(jobs)
    /\ LET job == jobs[cur.i]
           results == Append(cur.results, IF ok THEN job.idx ELSE 0)
           elapsed == cur.elapsed + dt
           timeout == IF BudgetChecked
                      THEN {Val(cur.original_timeout) - elapsed}
                      ELSE cur.timeout
       IN  IF BudgetChecked /\ BudgetSpent(Val(timeout))
           THEN /\ Return(Outcome("result", "Timeout", cur.i,
                                  <<job.start, job.end>>))
                /\ timed_out' = TRUE
           ELSE /\ cur' = [cur EXCEPT !.i = @ + 1, !.results = results,
                                      !.elapsed = elapsed, !.timeout = timeout,
                                      !.passed = FetchTimeout,
                                      !.before = cur.elapsed]
                /\ UNCHANGED <<pc, out, polled, timed_out>>
    /\ UNCHANGED <<coord, worker, hist, split, caller2>>

\* result(), lines 256-257.
ResultEnd ==
    /\ pc = "result_loop"
    /\ cur.i > Len(jobs)
    /\ result_cache' = {cur.results}
    /\ Return(Outcome("result", "ok", Len(cur.results), cur.results))
    /\ UNCHANGED <<jobs, submit_exception, submit_done_event, submit_called,
                   error_msg, worker, hist, split, caller2, timed_out>>

\* What job.status() does for each handle: it returns a JobStatus, or it
\* raises JobError.
StatusChoices == [1..Len(jobs) -> JobStatuses \cup {"JobError"}]

\* status() whose loop ends at the first job.status() that raises.
StatusListStops(sts) ==
    LET bad == {i \in DOMAIN sts : sts[i] = "JobError"}
    IN  IF bad = {} THEN sts
        ELSE SubSeq(sts, 1, (CHOOSE i \in bad : \A j \in bad : i <= j) - 1)

\* status(), lines 158-167: every handle is asked in turn; JobError from
\* job.status() is caught and leaves None in the list.
StatusList(sts) ==
    [i \in DOMAIN sts |-> IF sts[i] = "JobError" THEN "None" ELSE sts[i]]

StatusBody ==
    /\ pc = "wait" /\ cur.op = "status"
    /\ GateOpen
    /\ \E sts \in StatusChoices :
          /\ out' = Outcome("status", "ok", Len(StatusList(sts)),
                            StatusList(sts))
          /\ polled' = sts
    /\ pc' = "idle"
    /\ cur' = NoCall
    /\ UNCHANGED <<coord, worker, hist, split, caller2, timed_out>>

Count(sts, s) == Cardinality({i \in DOMAIN sts : sts[i] = s})

\* Lines 185-189: the counts the summary shows.
Summary(sts) ==
    <<Count(sts, "DONE"), Count(sts, "ERROR"), Count(sts, "CANCELLED"),
      Count(sts, "RUNNING")>>

\* report(), lines 180-210. The detail part calls queue_position() on a
\* queued handle and error_message() on a failed one, without a handler:
\* detail_ok = FALSE is JobError leaving report().
ReportBody ==
    /\ pc = "wait" /\ cur.op = "report"
    /\ GateOpen
    /\ \E sts \in StatusChoices, detailed \in BOOLEAN, detail_ok \in BOOLEAN :
          LET fetches == \E i \in DOMAIN sts : sts[i] \in {"QUEUED", "ERROR"}
          IN  /\ ~detail_ok => detailed /\ fetches
              /\ IF ~detail_ok
                 THEN Return(Outcome("report", "JobError", 0, <<>>))
                 ELSE Return(Outcome("report", "ok", Len(StatusList(sts)),
                                     Summary(StatusList(sts))))
    /\ UNCHANGED <<coord, worker, hist, split, caller2, timed_out>>

\* What job.status() and, for a failed job, job.error_message() do for
\* each handle: "JobError" is job.status() raising JobError, "ERROR?" is
\* status ERROR with job.error_message() raising JobError.
MessageChoices == [1..Len(jobs) -> JobStatuses \cup {"JobError", "ERROR?"}]

\* error_message(), lines 266-285. JobError from job.status() on line 271
\* is not caught; JobError from job.error_message() gives "Unknown error.".
\* The method never assigns self._error_msg.
ErrorMessageBody ==
    /\ pc = "wait" /\ cur.op = "error_message"
    /\ GateOpen
    /\ IF error_msg # {}
       THEN Return(Outcome("error_message", "ok", 0, Val(error_msg)))
       ELSE \E sts \in MessageChoices :
              LET failed == {i \in DOMAIN sts : sts[i] \in {"ERROR", "ERROR?"}}
                  report == [i \in DOMAIN sts |->
                                IF i \notin failed THEN ""
                                ELSE IF sts[i] = "ERROR" THEN "message"
                                ELSE "Unknown error."]
              IN  IF \E i \in DOMAIN sts : sts[i] = "JobError"
                  THEN Return(Outcome("error_message", "JobError", 0, <<>>))
                  ELSE IF failed = {}
                  THEN Return(Outcome("error_message", "None", 0, <<>>))
                  ELSE Return(Outcome("error_message", "ok",
                                      Cardinality(failed), report))
    /\ UNCHANGED <<coord, worker, hist, split, caller2, timed_out>>

\* qobj(), line 294: job.qobj() fetches the Qobj of a handle and may raise.
QobjBody ==
    /\ pc = "wait" /\ cur.op = "qobj"
    /\ GateOpen
    /\ \E ok \in BOOLEAN :
          IF ok
          THEN Return(Outcome("qobj", "ok", Len(jobs),
                              [i \in 1..Len(jobs) |-> jobs[i].idx]))
          ELSE Return(Outcome("qobj", "JobError", 0, <<>>))
    /\ UNCHANGED <<coord, worker, hist, split, caller2, timed_out>>

Next ==
    \/ RunUnsupported
    \/ RunAlready
    \/ \E L \in 0..MaxExps, transpile \in {"skip", "ok", "fail"},
          B \in OptLimits, M \in OptCaps : RunSubmit(L, transpile, B, M)
    \/ RunReturn
    \/ WorkerTake
    \/ \E ok \in BOOLEAN : WorkerSubmit(ok)
    \/ WorkerFinish
    \/ CbLoop
    \/ CbCheck
    \/ \E ok \in BOOLEAN : CbCancel(ok)
    \/ CbClear
    \/ CbSet
    \/ \E op \in QueryOps \ {"result"} : QueryCall(op, {})
    \/ \E timeout \in OptTimeouts : QueryCall("result", timeout)
    \/ JobsBody
    \/ ResultBegin
    \/ \E dt \in 0..MaxDelay, ok \in BOOLEAN : ResultFetch(dt, ok)
    \/ ResultEnd
    \/ StatusBody
    \/ ReportBody
    \/ ErrorMessageBody
    \/ QobjBody

Spec == Init /\ [][Next]_vars

\* ------------------------- run() called by two threads at a time
\* The second thread's run(), lines 100-101.
Run2Already ==
    /\ pc2 = "idle"
    /\ AlreadySubmitted
    /\ out2' = Outcome("run", "InvalidState", 0, <<>>)
    /\ UNCHANGED <<pc2, ret2, coord, worker, caller, hist, split, timed_out>>

\* The second thread's run(), lines 100-114: as RunSubmit, on the same
\* coordinator. The class has no lock: the flag read on line 100 is the
\* one line 115 of the other thread's run() may not have set yet.
Run2Submit(L, B, M) ==
    /\ pc2 = "idle"
    /\ ~AlreadySubmitted
    /\ LET sp == SplitExperiments(Experiments(L), B, M)
           qobjs == [k \in 1..Len(sp.value) |-> Assemble(sp.value[k])]
       IN  IF sp.raised
           THEN /\ out2' = Outcome("run", "ValueError", 0, <<>>)
                /\ UNCHANGED <<pc2, ret2, coord, worker, caller, hist, split,
                               timed_out>>
           ELSE /\ n_sched < MaxRuns
                /\ queue' = Append(queue, qobjs)
                /\ n_sched' = n_sched + 1
                /\ pc2' = "run"
                /\ ret2' = Len(qobjs)
                /\ out2' = NoOutcome
                /\ n_exps' = L
                /\ UNCHANGED <<coord, work, wpc, cb_i, cancel_calls, caller,
                               n_run_ok, n_set, n_submits, split, timed_out>>

\* The second thread's run(), lines 115-117.
Run2Return ==
    /\ pc2 = "run"
    /\ submit_called' = FlagAfterRun
    /\ out2' = Outcome("run", "ok", ret2, <<>>)
    /\ n_run_ok' = n_run_ok + 1
    /\ pc2' = "idle"
    /\ ret2' = 0
    /\ UNCHANGED <<jobs, submit_exception, submit_done_event, result_cache,
                   error_msg, worker, caller, n_sched, n_set, n_submits,
                   n_exps, split, timed_out>>

\* Two threads call run(); the first thread also calls jobs().
NextRace ==
    \/ RunAlready
    \/ \E L \in 0..MaxExps, B \in OptLimits, M \in OptCaps :
          RunSubmit(L, "skip", B, M)
    \/ RunReturn
    \/ Run2Already
    \/ \E L \in 0..MaxExps, B \in OptLimits, M \in OptCaps :
          Run2Submit(L, B, M)
    \/ Run2Return
    \/ WorkerTake
    \/ \E ok \in BOOLEAN : WorkerSubmit(ok)
    \/ WorkerFinish
    \/ CbLoop
    \/ CbCheck
    \/ \E ok \in BOOLEAN : CbCancel(ok)
    \/ CbClear
    \/ CbSet
    \/ QueryCall("jobs", {})
    \/ JobsBody

SpecRace == Init /\ [][NextRace]_vars

\* ------------------------------- _split_experiments on its own
OptSplitLimits == {{}} \cup {{n} : n \in 1..MaxSplitLimit}

OptSplitCaps == {{}} \cup {{n} : n \in 0..MaxSplitLimit}

InitSplit ==
    /\ InitCoordinator
    /\ sp_in \in [experiments : {Experiments(L) : L \in 0..MaxSplitLen},
                  B : OptSplitLimits, M : OptSplitCaps]
    /\ sp_out = NoSplitOut

\* self._split_experiments(experiments, backend, max_experiments_per_job)
SplitCall ==
    /\ ~sp_out.done
    /\ LET r == SplitExperiments(sp_in.experiments, sp_in.B, sp_in.M)
       IN  sp_out' = [done |-> TRUE, raised |-> r.raised,
                      chunk |-> ChunkSize(sp_in.B, sp_in.M), value |-> r.value]
    /\ UNCHANGED <<coord, worker, caller, hist, sp_in, caller2, timed_out>>

NextSplit == SplitCall

SpecSplit == InitSplit /\ [][NextSplit]_vars

\* ============================================================ claims
\* The submission phase the worker has taken up.
Failed == \E k \in DOMAIN work.results : work.results[k].kind = "err"

Submitted == {work.results[k] : k \in {j \in DOMAIN work.results :
                                          work.results[j].kind = "job"}}

CallbackEnded == wpc \in {"done", "raised"}

\* The collection the completion handler is to leave: every handle in
\* sub-batch order, or nothing when a submission failed.
FinalJobs == IF Failed THEN <<>> ELSE work.results

\* The number of sub-batches handed to the executor by run().
BatchCount ==
    IF queue # <<>> THEN Len(Head(queue))
    ELSE IF wpc = "submit" THEN Len(work.qobjs)
    ELSE Len(work.results)

\* C1: once a run() call has returned its count, no later step hands work
\* to the executor, a run() call that ends then ends with InvalidState, and
\* the flag, set by that one return and by nothing else, is never cleared.
C1_RunOneShot ==
    [][ /\ submit_called => submit_called'
        /\ (~submit_called /\ submit_called') => (n_run_ok = 0 /\ n_run_ok' = 1)
        /\ n_run_ok >= 1 =>
              /\ n_sched' = n_sched
              /\ n_run_ok' = n_run_ok
              /\ Len(queue') <= Len(queue)
              /\ pc' # "run"
              /\ (out' # out /\ out'.op = "run") => out'.status = "InvalidState"
      ]_vars

\* A second run() was refused after the first submission phase had failed
\* and its clean-up had ended.
C1_Witness ==
    /\ n_run_ok = 1
    /\ out.op = "run" /\ out.status = "InvalidState"
    /\ CallbackEnded /\ Failed

\* C2: run() has returned and the completion handler has ended: in any
\* outcome of the submission phase, the readiness gate has been signalled
\* exactly once (so a query waiting on it goes on).
C2_GateSignalled ==
    (n_run_ok >= 1 /\ CallbackEnded) => (submit_done_event /\ n_set = 1)

\* C3: when the completion handler has ended after a failed submission,
\* every handle that was submitted has had its cancel() called, the failure
\* is recorded, and with the gate signalled the collection is empty.
C3_FailureCompensated ==
    (CallbackEnded /\ Failed) =>
        /\ Submitted \subseteq cancel_calls
        /\ submit_exception # None
        /\ submit_done_event => jobs = <<>>
        /\ (out.op = "jobs" /\ out.status = "ok") => out.list = <<>>

\* C4: a query passes the gate only when the collection is final (all N
\* handles in sub-batch order, or empty after a failure); the collection
\* does not change while a query works on it or after the gate is
\* signalled, and jobs() returns the final collection.
C4_NoPartialView ==
    [][ /\ ((pc = "wait" /\ pc' # "wait") \/ pc = "result_loop") =>
              (submit_done_event /\ jobs = FinalJobs /\ jobs' = jobs)
        /\ submit_done_event => jobs' = jobs
        /\ (out' # out /\ out'.op = "jobs" /\ out'.status = "ok") =>
              out'.list = FinalJobs
      ]_vars

\* A jobs() call is held at the gate while the completion handler is
\* cancelling a collection that holds some of the handles.
C4_Witness ==
    /\ pc = "wait" /\ cur.op = "jobs"
    /\ wpc = "cb_cancel"
    /\ jobs # <<>> /\ jobs # FinalJobs
    /\ ~submit_done_event

\* C5: as long as no run() call has handed work over, every query that has
\* ended has ended with InvalidState, and no query is waiting at the gate
\* or working.
C5_QueryBeforeRun ==
    n_sched = 0 =>
        /\ pc = "idle"
        /\ out.op \in QueryOps => out.status = "InvalidState"

\* report() was refused on a coordinator that has not run.
C5_Witness ==
    /\ n_sched = 0
    /\ out.op = "report" /\ out.status = "InvalidState"

\* The example of the specification: 2500 experiments, backend limit 300.
ExampleSubBatches == Len(SplitExperiments(Experiments(2500), {300}, {}).value)

\* C6: run(), once it has handed the work over, can return whatever the
\* worker has done so far, and the count it returns is the number of
\* sub-batches it handed over; when every submission has succeeded and the
\* gate is signalled, the collection has that many handles, handle i being
\* the one of sub-batch i, and jobs() returns it.
C6_CountAndHandles ==
    /\ pc = "run" => (ENABLED RunReturn /\ cur.ret = BatchCount)
    /\ (out.op = "run" /\ out.status = "ok") => out.n = BatchCount
    /\ (submit_done_event /\ ~Failed) =>
          /\ Len(jobs) = BatchCount
          /\ \A i \in 1..Len(jobs) : jobs[i].kind = "job" /\ jobs[i].idx = i
          /\ (out.op = "jobs" /\ out.status = "ok") => out.list = jobs
    /\ ExampleSubBatches = 9

\* run() returned 3, all three submissions succeeded and jobs() has
\* returned the three handles.
C6_Witness ==
    /\ n_run_ok = 1 /\ BatchCount = 3 /\ ~Failed
    /\ out.op = "jobs" /\ out.status = "ok" /\ Len(out.list) = 3

\* C7: after run() on an empty experiment list, run() has returned 0, no
\* remote submission is made and jobs() returns an empty collection.
C7_EmptyRun ==
    (n_run_ok >= 1 /\ n_exps = 0) =>
        /\ (out.op = "run" /\ out.status = "ok") => out.n = 0
        /\ n_submits = 0
        /\ (out.op = "jobs" /\ out.status = "ok") => out.list = <<>>

CeilDiv(a, b) == (a + b - 1) \div b

\* C8: with a chunk size C > 0, _split_experiments gives ceil(L/C)
\* sub-batches, each of C experiments but the last, which has 1..C, and
\* their concatenation is the list.
C8_Partition ==
    (sp_out.done /\ sp_out.chunk # {} /\ Val(sp_out.chunk) > 0) =>
        LET C == Val(sp_out.chunk)
            L == Len(sp_in.experiments)
            v == sp_out.value
        IN  /\ ~sp_out.raised
            /\ Len(v) = CeilDiv(L, C)
            /\ \A k \in 1..Len(v) :
                  IF k < Len(v) THEN Len(v[k]) = C
                  ELSE Len(v[k]) >= 1 /\ Len(v[k]) <= C
            /\ Concat(v) = sp_in.experiments

\* Five experiments were split by 2 into three sub-batches.
C8_Witness ==
    /\ sp_out.done /\ sp_out.chunk = {2}
    /\ Len(sp_in.experiments) = 5 /\ Len(sp_out.value) = 3

\* C9: the chunk size is min(B, M) with both given, B with only B, M with
\* only M; with neither the list comes back as one sub-batch.
C9_ChunkSize ==
    sp_out.done =>
        LET B == sp_in.B
            M == sp_in.M
        IN  /\ (B # {} /\ M # {}) => sp_out.chunk = {Min(Val(B), Val(M))}
            /\ (B # {} /\ M = {}) => sp_out.chunk = B
            /\ (B = {} /\ M # {}) => sp_out.chunk = M
            /\ (B = {} /\ M = {}) =>
                  sp_out.chunk = {} /\ sp_out.value = <<sp_in.experiments>>

\* C10: result(timeout=T) hands each job.result() the budget left after
\* the time the earlier handles took; it does not go on to another handle
\* once the time taken exceeds T, failing with Timeout on the index range
\* of the handle it was fetching; a list it returns has one entry per
\* handle.
C10_SharedBudget ==
    /\ (pc = "result_loop" /\ cur.original_timeout # {}) =>
          LET T == Val(cur.original_timeout)
          IN  /\ cur.i > 1 => cur.passed = {T - cur.before}
              /\ cur.i <= Len(jobs) => cur.elapsed <= T
    /\ (out.op = "result" /\ out.status = "ok") => Len(out.list) = Len(jobs)
    /\ (out.op = "result" /\ out.status = "Timeout") =>
          out.list = <<jobs[out.n].start, jobs[out.n].end>>

\* ------------------------------------------- where C2-C10 do hold
\* These are not the claims: each states how far the code goes along with
\* a claim that fails, and each holds.

\* C2, C3 when no cancel() has raised.
GateSignalledUnlessCancelRaises ==
    wpc # "raised" => (C2_GateSignalled /\ C3_FailureCompensated)

\* C7 when the split gave no sub-batch (a backend limit or a cap other
\* than 0 with an empty list).
EmptyRunWhenSplit ==
    BatchCount = 0 => C7_EmptyRun

\* C9 for a cap that is None or not 0.
ChunkSizeNonZeroCap ==
    sp_in.M # {0} => C9_ChunkSize

\* C10 for a timeout above 0; the loop goes on only while the time taken
\* is below T.
SharedBudgetPositive ==
    /\ (pc = "result_loop" /\ Truthy(cur.original_timeout)) =>
          LET T == Val(cur.original_timeout)
          IN  /\ cur.i > 1 => cur.passed = {T - cur.before}
              /\ cur.i <= Len(jobs) => cur.elapsed < T
    /\ (out.op = "result" /\ out.status = "ok") => Len(out.list) = Len(jobs)
    /\ (out.op = "result" /\ out.status = "Timeout") =>
          out.list = <<jobs[out.n].start, jobs[out.n].end>>

\* ------------------------------------------------------------ C11-C20

\* C11: once a result() call has completed a full pass (line 256 has
\* stored its list), every later result() call, whatever its timeout,
\* returns the stored list itself from line 231: it does not enter the
\* loop, where line 233 makes a new list, and no job.result() is called;
\* the stored list is not replaced. This for every number of handles, zero
\* included.
C11_ResultCached ==
    [][ result_cache # {} =>
          /\ result_cache' = result_cache
          /\ pc' # "result_loop"
          /\ (pc = "wait" /\ cur.op = "result" /\ pc' # "wait") =>
                /\ pc' = "idle"
                /\ out' = Outcome("result", "ok", Len(Val(result_cache)),
                                  Val(result_cache))
      ]_vars

\* C11 when the stored list is not empty.
ResultCachedNonEmpty ==
    [][ (result_cache # {} /\ Val(result_cache) # <<>>) =>
          /\ result_cache' = result_cache
          /\ pc' # "result_loop"
          /\ (pc = "wait" /\ cur.op = "result" /\ pc' # "wait") =>
                /\ pc' = "idle"
                /\ out' = Outcome("result", "ok", Len(Val(result_cache)),
                                  Val(result_cache))
      ]_vars

\* C12: when an error_message() call has computed a report that is not
\* empty, the report is stored in self._error_msg; once a report is stored,
\* it stays the same and every later error_message() call returns it.
C12_ErrorMessageCached ==
    [][ /\ ( /\ pc = "wait" /\ cur.op = "error_message"
             /\ out'.op = "error_message" /\ out'.status = "ok"
             /\ out'.n > 0 ) => error_msg' = {out'.list}
        /\ error_msg # {} =>
              /\ error_msg' = error_msg
              /\ (pc = "wait" /\ cur.op = "error_message" /\ pc' # "wait") =>
                    (out'.status = "ok" /\ out'.list = Val(error_msg))
      ]_vars

\* What the code does instead: the cache of error_message() is never set.
ErrorMessageNeverCached == error_msg = {}

\* C13: no query on all handles ends with the failure of a fetch on one
\* handle: report() and error_message() end with a value, result() ends
\* with its list or with Timeout, status() and jobs() end with their lists.
C13_NoAggregateAbort ==
    /\ out.op \in {"report", "error_message"} =>
          out.status \in {"ok", "None", "InvalidState"}
    /\ out.op = "result" => out.status \in {"ok", "Timeout", "InvalidState"}
    /\ out.op \in {"status", "jobs"} => out.status \in {"ok", "InvalidState"}

\* The part of C13 on result(): it ends with a list of one entry per
\* handle or with Timeout, and the loop goes on after a fetch that failed.
ResultAbsorbsJobError ==
    /\ out.op = "result" => out.status \in {"ok", "Timeout", "InvalidState"}
    /\ (out.op = "result" /\ out.status = "ok") => Len(out.list) = Len(jobs)

\* C14: status() never fails because job.status() of a handle fails: it
\* asks every handle, and its list has one entry per handle, entry i being
\* the status job.status() returned for handle i, or None when it raised.
C14_StatusTotal ==
    out.op = "status" =>
        \/ out.status = "InvalidState"
        \/ /\ out.status = "ok"
           /\ Len(polled) = Len(jobs)
           /\ Len(out.list) = Len(jobs)
           /\ \A i \in 1..Len(jobs) :
                 out.list[i] = IF polled[i] = "JobError" THEN "None"
                               ELSE polled[i]

\* status() on three handles of which the second raised JobError: None is
\* the second entry and the third handle's status follows it.
C14_Witness ==
    /\ out.op = "status" /\ out.status = "ok"
    /\ Len(jobs) = 3
    /\ polled[1] = "DONE" /\ polled[2] = "JobError" /\ polled[3] = "RUNNING"
    /\ out.list = <<"DONE", "None", "RUNNING">>

\* The handles report() counts on line 184.
ReportTotal == out.n

RECURSIVE Sum(_)
Sum(s) == IF s = <<>> THEN 0 ELSE Head(s) + Sum(Tail(s))

\* C15: in a report, the counts by status sum to the number of handles,
\* whatever the statuses of the handles are.
C15_TallySumsToTotal ==
    (out.op = "report" /\ out.status = "ok") =>
        /\ ReportTotal = Len(jobs)
        /\ Sum(out.list) = ReportTotal

\* What holds of the counts of a report: they sum to the number of handles
\* that are done, failed, cancelled or running, which is at most the total.
TallyAtMostTotal ==
    (out.op = "report" /\ out.status = "ok") =>
        /\ ReportTotal = Len(jobs)
        /\ Sum(out.list) <= ReportTotal

\* C16: a cancel() that fails during the clean-up is absorbed: nothing
\* leaves the completion handler, and when the handler has ended after a
\* failed submission every handle submitted has had cancel() called, the
\* collection is empty, the failure is still recorded and the gate is
\* signalled.
C16_CancelFailureAbsorbed ==
    /\ wpc # "raised"
    /\ (CallbackEnded /\ Failed) =>
          /\ Submitted \subseteq cancel_calls
          /\ jobs = <<>>
          /\ submit_exception # None
          /\ submit_done_event

\* The failure of the first sub-batch, in sub-batch order, whose submission
\* failed.
FirstFailure ==
    LET bad == {k \in DOMAIN work.results : work.results[k].kind = "err"}
    IN  work.results[CHOOSE k \in bad : \A j \in bad : k <= j]

\* The same for the last such sub-batch.
LastFailure ==
    LET bad == {k \in DOMAIN work.results : work.results[k].kind = "err"}
    IN  work.results[CHOOSE k \in bad : \A j \in bad : k >= j]

\* The loop of the completion handler over the outcomes is over.
OutcomesRead == wpc \in {"cb_cancel", "cb_set", "done", "raised"}

\* C17: when the completion handler has read the outcomes and some
\* submissions have failed, the failure it has recorded is the first one
\* in sub-batch order.
C17_FirstFailureRecorded ==
    (OutcomesRead /\ Failed) => submit_exception = FirstFailure

\* What the code records: the last failure in sub-batch order.
LastFailureRecorded ==
    (OutcomesRead /\ Failed) => submit_exception = LastFailure

\* C18: with two threads calling run() at a time, at most one submission
\* phase is handed to the executor, at most one of the run() calls returns
\* a count (the other fails with InvalidState), and the collection holds
\* handles of one batch only, in sub-batch order.
C18_OneSubmissionPhase ==
    /\ n_sched <= 1
    /\ n_run_ok <= 1
    /\ \A i, j \in 1..Len(jobs) : i < j => jobs[i].idx < jobs[j].idx

\* The handles of two batches in the collection.
TwoBatchesNeverMixed ==
    \A i, j \in 1..Len(jobs) : i < j => jobs[i].idx < jobs[j].idx

\* C19: result() fails with Timeout only while a handle is still to be
\* fetched: a Timeout names a handle that is not the last one, and once the
\* last handle's fetch has completed the call returns the full list.
C19_NoTimeoutAfterLastFetch ==
    /\ (out.op = "result" /\ out.status = "Timeout") => out.n < Len(jobs)
    /\ (pc = "result_loop" /\ cur.i > Len(jobs)) =>
          (ENABLED ResultEnd /\ Len(cur.results) = Len(jobs))

\* What holds of a Timeout: it names the handle whose fetch came last, any
\* handle of the collection, the last one included.
TimeoutNamesFetchedHandle ==
    (out.op = "result" /\ out.status = "Timeout") =>
        (out.n >= 1 /\ out.n <= Len(jobs))

\* C20: a result() call that fails with Timeout leaves the cache unset and
\* the collection as it was; the next result() call finds no cache, starts
\* the loop at the first handle with an empty list and the whole of its
\* budget, and the list it may return has one entry per handle.
C20_TimeoutLeavesNoCache ==
    [][ /\ (pc = "result_loop" /\ out'.status = "Timeout") =>
              /\ timed_out'
              /\ result_cache = {} /\ result_cache' = {}
              /\ jobs' = jobs
        /\ (timed_out /\ result_cache = {}) =>
              /\ jobs' = jobs
              /\ (pc = "wait" /\ cur.op = "result" /\ pc' # "wait") =>
                    /\ pc' = "result_loop"
                    /\ cur'.i = 1 /\ cur'.results = <<>> /\ cur'.elapsed = 0
                    /\ cur'.timeout = cur.original_timeout
              /\ (pc = "result_loop" /\ out'.status = "ok") =>
                    /\ Len(out'.list) = Len(jobs)
                    /\ result_cache' = {out'.list}
      ]_vars

\* After a result() call on two handles had failed with Timeout, a later
\* call fetched both handles and returned the full list, now cached.
C20_Witness ==
    /\ timed_out
    /\ Len(jobs) = 2
    /\ out.op = "result" /\ out.status = "ok" /\ out.list = <<1, 2>>
    /\ result_cache = {out.list}

====
